---- MODULE Spec2Model ----
(***************************************************************************)
(* Model of the skelly-audio-tools backend (src/backend/main.py and the    *)
(* separator wrapper it calls): the job registry, the /separate-vocals     *)
(* and /get-audio-url request handlers, the registry endpoints and the     *)
(* start-up backend selection.                                             *)
(*                                                                         *)
(* Scheduling.  Every endpoint of main.py is an `async def` served by one  *)
(* asyncio event loop (uvicorn main:app).  A handler therefore runs        *)
(* without interruption from one `await` to the next.  separate_vocals has *)
(* exactly one await (main.py:162, `await file.read()`); get_audio_url and *)
(* the registry endpoints have none.  The variable `loop` holds the        *)
(* request that currently owns the event loop (0 when it is idle).         *)
(* Specification Spec uses this scheduling (sched = "loop").               *)
(* Specification SpecWorkers (sched = "workers") drops the ownership and   *)
(* lets every handler step interleave with every other operation, which is *)
(* a superset of the behaviours of Spec.                                   *)
(***************************************************************************)
EXTENDS Integers, FiniteSets, Sequences, TLC

\* ---------------------------------------------------------------- bounds
MaxReqs == 2
MaxJobs == 2
\* requests served under the free interleaving of SpecWorkers
MaxWorkers == 1

Reqs == 1..MaxReqs
JobIds == 1..MaxJobs
MaxChunk == 20          \* largest chunk_size
MaxOverlap == 4         \* largest num_overlap
MaxLen == 24            \* longest input waveform, in samples
MaxFail == 2            \* latest estimator call that may raise (0-based)
MaxSample == 12         \* largest sample magnitude in an input file
MaxChannels == 3        \* most channels in an input file
MaxFrames == 2          \* most frames in an input file

\* ------------------------------------------------------------- constants
None == "None"
Terminal == {"completed", "failed", "cancelled"}
Statuses == {"running"} \cup Terminal
Backends == {"remote-cuda", "onnx", "pytorch"}
FileNames == {"temp_input", "vocals", "instrumental", "zip"}
NoFiles == [f \in FileNames |-> "none"]
Checkpoints == 1..3

VARIABLES
    sched,          \* "loop" (asyncio event loop) or "workers" (free interleaving)
    loop,           \* request that owns the event loop, 0 = idle
    started,        \* startup_event has run
    separator,      \* global separator: None or the active backend_type
    active_jobs,    \* keys of the active_jobs dict
    status,         \* JobInfo.status per job id ("none" = no such object)
    progress,       \* JobInfo.progress
    error_message,  \* JobInfo.error_message
    cancel_event,   \* JobInfo.cancel_event.is_set()
    job_type,       \* JobInfo.job_type
    pc,             \* position of each request handler
    job,            \* the handler's local `job` (0 = None)
    exc,            \* status_code of the HTTPException being propagated
    files,          \* the handler's temp files: "none" | "empty" | "data"
    cache,          \* the cached mp3 of the requested video exists
    flagAt,         \* history: value of is_cancelled() when the handler wrote
                    \* the input (index 0) and at checkpoint 1, 2, 3
    effects,        \* history: what the handler has done so far
    last,           \* history: the last operation and its response code
    env,            \* what the backend constructors meet at start-up
    ctor,           \* position inside VocalSeparator.__init__ / startup_event
    attempts,       \* history: the candidates tried, in order, with outcome
    held,           \* self.separator of the wrapper: the adapter class held
    backend_type,   \* self.backend_type of the wrapper
    variant,        \* which separate() runs: "pytorch" or "onnx" ("none" = idle)
    chunk_size,     \* C
    num_overlap,    \* N
    audio_tensor,   \* the input waveform, one sequence per channel
    mix,            \* the (possibly border-padded) buffer
    padded,         \* the border padding was applied
    result,         \* accumulated windowed chunks, scaled by WindowScale
    counter,        \* accumulated window weights, scaled by WindowScale
    ci,             \* loop variable i of the chunk loop
    cpc,            \* position inside separate()
    estimated_vocals, \* the returned tensor
    fail_at,        \* the estimator raises on its (fail_at + 1)-th call, -1 = never
    calls,          \* history: the start offsets handed to the estimator
    pads,           \* history: the tail pads attempted (mode, length, pad_amount)
    wpc,            \* position inside the wrapper's separate(audio_path)
    wav,            \* what sf.read returned, as [channels][samples]
    sr,             \* the file's sample rate
    original_tensor, \* the float32 tensor handed on
    rate,           \* the sample rate original_tensor is at
    vocals_tensor,  \* what the adapter returned
    instrumental_tensor,
    rpc,            \* position inside RemoteCUDAVocalSeparator.separate
    rresult,        \* response.json() of the POST: "none" | "urls" | "error_list"
    rfiles,         \* content of the two local stem files
    rrate,          \* sample_rate field of the POST answer (0 = absent)
    routcome,       \* "none" | "raised" | "returned" (the paths of rfiles and rrate)
    answers         \* history: the peer's answers, in order

vars == <<sched, loop, started, separator, active_jobs, status, progress,
          error_message, cancel_event, job_type, pc, job, exc, files, cache,
          flagAt, effects, last, env, ctor, attempts, held, backend_type,
          variant, chunk_size, num_overlap, audio_tensor, mix, padded, result,
          counter, ci, cpc, estimated_vocals, fail_at, calls, pads,
          wpc, wav, sr, original_tensor, rate, vocals_tensor, instrumental_tensor,
          rpc, rresult, rfiles, rrate, routcome, answers>>

selVars == <<env, ctor, attempts, held, backend_type>>
chunkVars == <<variant, chunk_size, num_overlap, audio_tensor, mix, padded,
               result, counter, ci, cpc, estimated_vocals, fail_at, calls, pads>>
wrapVars == <<wpc, wav, sr, original_tensor, rate, vocals_tensor, instrumental_tensor>>
remoteVars == <<rpc, rresult, rfiles, rrate, routcome, answers>>
auxVars == <<selVars, chunkVars, wrapVars, remoteVars>>
mainVars == <<sched, loop, started, separator, active_jobs, status, progress,
              error_message, cancel_event, job_type, pc, job, exc, files, cache,
              flagAt, effects, last>>
jobVars == <<active_jobs, status, progress, error_message, cancel_event, job_type>>
reqVars == <<pc, job, exc, files, flagAt, effects>>

\* ------------------------------------------------------------ scheduling
\* The event loop is free to dispatch a new handler or resume a suspended one.
Free == sched = "workers" \/ loop = 0
\* Request r is the coroutine that is running.
Holds(r) == sched = "workers" \/ loop = r
Take(r) == IF sched = "workers" THEN 0 ELSE r

Resp(op, id, code) == [op |-> op, id |-> id, code |-> code]

\* --------------------------------------------------------------- JobInfo
\* variant: the flag is never observed
IsCancelledNever(j) == FALSE

\* JobInfo.is_cancelled
IsCancelled(j) == cancel_event[j]

\* variant: the identifier is not unique
NewJobIdReused == CHOOSE j \in JobIds : \A k \in JobIds : j <= k

\* uuid.uuid4(): an identifier no JobInfo has been created under
FreshIds == {j \in JobIds : status[j] = "none"}
NewJobId == CHOOSE j \in FreshIds : \A k \in FreshIds : j <= k

\* JobInfo.__init__ followed by active_jobs[job_id] = job
CreateJob(j, kind) ==
    /\ status' = [status EXCEPT ![j] = "running"]
    /\ progress' = [progress EXCEPT ![j] = 0]
    /\ error_message' = [error_message EXCEPT ![j] = None]
    /\ cancel_event' = [cancel_event EXCEPT ![j] = FALSE]
    /\ job_type' = [job_type EXCEPT ![j] = kind]
    /\ active_jobs' = active_jobs \cup {j}

\* variant: nothing is unlinked
CleanupNothing(fs, paths) == fs

\* cleanup_temp_files(*file_paths): unlink every path that exists
CleanupTempFiles(fs, paths) ==
    [f \in FileNames |-> IF f \in paths THEN "none" ELSE fs[f]]

\* status set by `except HTTPException as e`
HttpExcStatus(code) == IF code = 499 THEN "cancelled" ELSE "failed"

\* ------------------------------------------------------ backend selection
\* What the constructors meet: REMOTE_CUDA_URL set, separator_remote
\* importable, the remote client constructs; USE_ONNX, separator_onnx
\* importable, QUANTIZED, which .onnx files exist, the session loads; the
\* .safetensors model exists, the reference separator constructs.
Envs == [remote_url : BOOLEAN, remote_avail : BOOLEAN, remote_ok : BOOLEAN,
         use_onnx : BOOLEAN, onnx_avail : BOOLEAN, quantized : BOOLEAN,
         has_int8 : BOOLEAN, has_optimized : BOOLEAN, has_plain : BOOLEAN,
         onnx_load_ok : BOOLEAN,
         model_exists : BOOLEAN, pytorch_ok : BOOLEAN]
NoEnv == CHOOSE e \in Envs : \A f \in DOMAIN e : ~e[f]

OnnxExists(e, path) ==
    CASE path = "int8" -> e.has_int8
      [] path = "optimized" -> e.has_optimized
      [] path = "plain" -> e.has_plain

\* ONNXVocalSeparator.__init__ with onnx_model_path None: the file it settles on
OnnxModelPath(e) ==
    LET p1 == IF e.quantized THEN "int8" ELSE "unset"
        p2 == IF ~e.quantized \/ ~OnnxExists(e, p1) THEN "optimized" ELSE p1
    IN  IF ~OnnxExists(e, p2) THEN "plain" ELSE p2

\* variant: the existence test before loading is missing
OnnxArtifactAssumed(e) == TRUE

\* `os.path.exists(onnx_model_path)` on the file settled on
OnnxArtifactFound(e) == OnnxExists(e, OnnxModelPath(e))

\* outcome of ONNXVocalSeparator(...): "ok" or the exception raised
OnnxConstruct(e) ==
    IF ~OnnxArtifactFound(e) THEN "FileNotFoundError"
    ELSE IF e.onnx_load_ok THEN "ok" ELSE "Exception"

\* VocalSeparator.__init__ of backend/separator.py: the backend_type of the
\* wrapper that is constructed, or None when the constructor raises.
SelectBackend(e) ==
    IF e.remote_url /\ e.remote_avail /\ e.remote_ok THEN "remote-cuda"
    ELSE IF e.use_onnx /\ e.onnx_avail /\ OnnxConstruct(e) = "ok" THEN "onnx"
    ELSE IF ~e.model_exists THEN None
    ELSE IF e.pytorch_ok THEN "pytorch"
    ELSE None

\* startup_event
Startup ==
    /\ ~started
    /\ started' = TRUE
    /\ \E e \in Envs : separator' = SelectBackend(e)
    /\ last' = Resp("startup", 0, 0)
    /\ UNCHANGED <<auxVars, sched, loop, cache>>
    /\ UNCHANGED jobVars
    /\ UNCHANGED reqVars

\* The same start-up, one constructor attempt per step (SpecSelect).
Attempt(b, ok, why) == [backend |-> b, ok |-> ok, why |-> why]
Rank(b) == CASE b = "remote-cuda" -> 1 [] b = "onnx" -> 2 [] b = "pytorch" -> 3

\* variant: the `return` after a successful remote construction is missing
CtorRemoteNoReturn ==
    /\ ctor = "remote"
    /\ IF env.remote_url /\ env.remote_avail
       THEN /\ attempts' = Append(attempts, Attempt("remote-cuda", env.remote_ok,
                                IF env.remote_ok THEN "none" ELSE "ImportError"))
            /\ held' = IF env.remote_ok THEN "RemoteCUDAVocalSeparator" ELSE held
            /\ backend_type' = IF env.remote_ok THEN "remote-cuda" ELSE backend_type
       ELSE UNCHANGED <<attempts, held, backend_type>>
    /\ ctor' = "onnx"
    /\ UNCHANGED <<env, mainVars, chunkVars, wrapVars, remoteVars>>

\* separator.py:61-74: self.backend_type = "unknown"; try the remote client
CtorRemote ==
    /\ ctor = "remote"
    /\ IF env.remote_url /\ env.remote_avail
       THEN IF env.remote_ok
            THEN /\ attempts' = Append(attempts, Attempt("remote-cuda", TRUE, "none"))
                 /\ held' = "RemoteCUDAVocalSeparator"
                 /\ backend_type' = "remote-cuda"
                 /\ ctor' = "returned"
            ELSE /\ attempts' = Append(attempts, Attempt("remote-cuda", FALSE, "ImportError"))
                 /\ ctor' = "onnx"
                 /\ UNCHANGED <<held, backend_type>>
       ELSE /\ ctor' = "onnx"
            /\ UNCHANGED <<attempts, held, backend_type>>
    /\ UNCHANGED <<env, mainVars, chunkVars, wrapVars, remoteVars>>

\* variant: the ONNX branch forgets to set backend_type
CtorOnnxUntyped ==
    /\ ctor = "onnx"
    /\ IF env.use_onnx /\ env.onnx_avail
       THEN LET o == OnnxConstruct(env) IN
            /\ attempts' = Append(attempts, Attempt("onnx", o = "ok", IF o = "ok" THEN "none" ELSE o))
            /\ held' = IF o = "ok" THEN "ONNXVocalSeparator" ELSE held
            /\ ctor' = IF o = "ok" THEN "returned" ELSE "pytorch"
       ELSE /\ ctor' = "pytorch"
            /\ UNCHANGED <<attempts, held>>
    /\ UNCHANGED <<backend_type, env, mainVars, chunkVars, wrapVars, remoteVars>>

\* separator.py:76-99: try the ONNX separator
CtorOnnx ==
    /\ ctor = "onnx"
    /\ IF env.use_onnx /\ env.onnx_avail
       THEN LET o == OnnxConstruct(env) IN
            IF o = "ok"
            THEN /\ attempts' = Append(attempts, Attempt("onnx", TRUE, "none"))
                 /\ held' = "ONNXVocalSeparator"
                 /\ backend_type' = "onnx"
                 /\ ctor' = "returned"
            ELSE /\ attempts' = Append(attempts, Attempt("onnx", FALSE, o))
                 /\ ctor' = "pytorch"
                 /\ UNCHANGED <<held, backend_type>>
       ELSE /\ ctor' = "pytorch"
            /\ UNCHANGED <<attempts, held, backend_type>>
    /\ UNCHANGED <<env, mainVars, chunkVars, wrapVars, remoteVars>>

\* separator.py:101-129: the model file must exist, then the reference separator
CtorPytorch ==
    /\ ctor = "pytorch"
    /\ IF ~env.model_exists
       THEN /\ attempts' = Append(attempts, Attempt("pytorch", FALSE, "FileNotFoundError"))
            /\ ctor' = "raised"
            /\ UNCHANGED <<held, backend_type>>
       ELSE IF env.pytorch_ok
       THEN /\ attempts' = Append(attempts, Attempt("pytorch", TRUE, "none"))
            /\ held' = "VocalModelSeparator"
            /\ backend_type' = "pytorch"
            /\ ctor' = "returned"
       ELSE /\ attempts' = Append(attempts, Attempt("pytorch", FALSE, "Exception"))
            /\ ctor' = "raised"
            /\ UNCHANGED <<held, backend_type>>
    /\ UNCHANGED <<env, mainVars, chunkVars, wrapVars, remoteVars>>

\* main.py:98-117: `separator = VocalSeparator(...)`, or the except clauses
\* that log the error and leave separator None
StartupAssign ==
    /\ ~started /\ ctor \in {"returned", "raised"}
    /\ separator' = IF ctor = "returned" THEN backend_type ELSE None
    /\ started' = TRUE
    /\ ctor' = "finished"
    /\ last' = Resp("startup", 0, 0)
    /\ UNCHANGED <<env, attempts, held, backend_type, chunkVars, wrapVars, remoteVars>>
    /\ UNCHANGED <<sched, loop, cache>>
    /\ UNCHANGED jobVars
    /\ UNCHANGED reqVars

\* ------------------------------------------------------- registry endpoints
\* variant: cancel sets the flag and leaves the status
JobCancelFlagOnly(j) ==
    /\ cancel_event' = [cancel_event EXCEPT ![j] = TRUE]
    /\ UNCHANGED status

\* JobInfo.cancel
JobCancel(j) ==
    /\ cancel_event' = [cancel_event EXCEPT ![j] = TRUE]
    /\ status' = [status EXCEPT ![j] = "cancelled"]

\* variant: cancel_job without the `status != 'running'` rejection
CancelJobUnchecked(j) ==
    /\ started /\ Free
    /\ IF j \notin active_jobs
       THEN /\ last' = Resp("cancel_job", j, 404)
            /\ UNCHANGED <<status, cancel_event>>
       ELSE /\ cancel_event' = [cancel_event EXCEPT ![j] = TRUE]
            /\ status' = [status EXCEPT ![j] = "cancelled"]
            /\ last' = Resp("cancel_job", j, 200)
    /\ UNCHANGED <<auxVars, sched, loop, started, separator, cache>>
    /\ UNCHANGED <<active_jobs, progress, error_message, job_type>>
    /\ UNCHANGED reqVars

\* POST /jobs/{job_id}/cancel
CancelJob(j) ==
    /\ started /\ Free
    /\ IF j \notin active_jobs
       THEN /\ last' = Resp("cancel_job", j, 404)
            /\ UNCHANGED <<status, cancel_event>>
       ELSE IF status[j] # "running"
       THEN /\ last' = Resp("cancel_job", j, 400)
            /\ UNCHANGED <<status, cancel_event>>
       ELSE /\ JobCancel(j)
            /\ last' = Resp("cancel_job", j, 200)
    /\ UNCHANGED <<auxVars, sched, loop, started, separator, cache>>
    /\ UNCHANGED <<active_jobs, progress, error_message, job_type>>
    /\ UNCHANGED reqVars

\* variant: delete_job without the `status == 'running'` rejection
DeleteJobUnchecked(j) ==
    /\ started /\ Free
    /\ IF j \notin active_jobs
       THEN /\ last' = Resp("delete_job", j, 404)
            /\ UNCHANGED active_jobs
       ELSE /\ active_jobs' = active_jobs \ {j}
            /\ last' = Resp("delete_job", j, 200)
    /\ UNCHANGED <<auxVars, sched, loop, started, separator, cache>>
    /\ UNCHANGED <<status, progress, error_message, cancel_event, job_type>>
    /\ UNCHANGED reqVars

\* DELETE /jobs/{job_id}
DeleteJob(j) ==
    /\ started /\ Free
    /\ IF j \notin active_jobs
       THEN /\ last' = Resp("delete_job", j, 404)
            /\ UNCHANGED active_jobs
       ELSE IF status[j] = "running"
       THEN /\ last' = Resp("delete_job", j, 400)
            /\ UNCHANGED active_jobs
       ELSE /\ active_jobs' = active_jobs \ {j}
            /\ last' = Resp("delete_job", j, 200)
    /\ UNCHANGED <<auxVars, sched, loop, started, separator, cache>>
    /\ UNCHANGED <<status, progress, error_message, cancel_event, job_type>>
    /\ UNCHANGED reqVars

\* GET /jobs/{job_id}
GetJobStatus(j) ==
    /\ started /\ Free
    /\ last' = Resp("get_job_status", j, IF j \in active_jobs THEN 200 ELSE 404)
    /\ UNCHANGED <<auxVars, sched, loop, started, separator, cache>>
    /\ UNCHANGED jobVars
    /\ UNCHANGED reqVars

\* GET /jobs
ListJobs ==
    /\ started /\ Free
    /\ last' = Resp("list_jobs", 0, 200)
    /\ UNCHANGED <<auxVars, sched, loop, started, separator, cache>>
    /\ UNCHANGED jobVars
    /\ UNCHANGED reqVars

\* ------------------------------------------------- POST /separate-vocals
\* progress values written by the handlers
ProgressStarted == 10
\* variant: the value written after separation is below the one before it
ProgressSeparatedLow == ProgressStarted - 5
ProgressSeparated == 80
ProgressDone == 100

\* The adapter classes that define self.config and self.device, which the
\* wrapper's separate reads (separator.py:160, :172).  RemoteCUDAVocalSeparator
\* (separator_remote.py:45-61) sets remote_url, timeout and backend_type only.
HasConfig(b) == b \in {"onnx", "pytorch"}

\* What the call separator.separate(temp_input.name) meets: the input
\* decodes, the adapter (or remote peer) does not fail, the stem writes succeed.
SepEnvs == [decodable : BOOLEAN, adapter_ok : BOOLEAN,
            vocals_ok : BOOLEAN, instrumental_ok : BOOLEAN]
Favourable(e) == e.decodable /\ e.adapter_ok /\ e.vocals_ok /\ e.instrumental_ok

\* VocalSeparator.separate of backend/separator.py, in statement order
WrapperSeparate(b, e) ==
    IF ~e.decodable THEN "fail_before"              \* sf.read raises
    ELSE IF ~HasConfig(b) THEN "fail_before"        \* AttributeError on .config
    ELSE IF ~e.adapter_ok THEN "fail_before"        \* self.separator.separate raises
    ELSE IF ~e.vocals_ok THEN "fail_vocals"         \* sf.write(vocals_path) raises
    ELSE IF ~e.instrumental_ok THEN "fail_instrumental"
    ELSE "ok"

\* Outcomes of separator.separate(temp_input.name) with backend b
SepOutcomes(b) == {WrapperSeparate(b, e) : e \in SepEnvs}

SetPc(r, p) == pc' = [pc EXCEPT ![r] = p]
SetLast(r, code) == last' = Resp("separate_vocals", job[r], code)

\* variant: the handler does not test `if not separator`
SV_StartUnchecked(r) ==
    /\ started /\ Free /\ pc[r] = "idle"
    /\ FreshIds # {}
    /\ CreateJob(NewJobId, "vocal_separation")
    /\ job' = [job EXCEPT ![r] = NewJobId]
    /\ files' = [files EXCEPT ![r]["temp_input"] = "empty"]
    /\ pc' = [pc EXCEPT ![r] = "sv_read"]
    /\ last' = Resp("separate_vocals", NewJobId, 0)
    /\ UNCHANGED <<auxVars, sched, loop, started, separator, cache, exc, flagAt, effects>>

\* lines 142-162: reject when no separator, else create the job and the temp
\* file and suspend in `await file.read()`
SV_Start(r) ==
    /\ started /\ Free /\ pc[r] = "idle"
    /\ IF ~(separator # None)
       THEN /\ SetPc(r, "done")
            /\ last' = Resp("separate_vocals", 0, 503)
            /\ UNCHANGED jobVars
            /\ UNCHANGED <<job, files>>
       ELSE /\ FreshIds # {}
            /\ CreateJob(NewJobId, "vocal_separation")
            /\ job' = [job EXCEPT ![r] = NewJobId]
            /\ files' = [files EXCEPT ![r]["temp_input"] = "empty"]
            /\ SetPc(r, "sv_read")
            /\ last' = Resp("separate_vocals", NewJobId, 0)
    /\ UNCHANGED <<auxVars, sched, loop, started, separator, cache, exc, flagAt, effects>>

\* line 162: file.read() returns (or raises) and the coroutine resumes
SV_Read(r) ==
    /\ pc[r] = "sv_read" /\ Free
    /\ loop' = Take(r)
    /\ \E ok \in BOOLEAN : SetPc(r, IF ok THEN "sv_write" ELSE "sv_except")
    /\ SetLast(r, 0)
    /\ UNCHANGED <<auxVars, sched, started, separator, cache, job, exc, files, flagAt, effects>>
    /\ UNCHANGED jobVars

\* lines 163-165: temp_input.write(content); flush; close
SV_Write(r) ==
    /\ pc[r] = "sv_write" /\ Holds(r)
    /\ flagAt' = [flagAt EXCEPT ![r][0] = cancel_event[job[r]]]
    /\ \E ok \in BOOLEAN, empty \in BOOLEAN :
         IF ok
         THEN /\ files' = [files EXCEPT ![r]["temp_input"] =
                                IF empty THEN "empty" ELSE "data"]
              /\ effects' = [effects EXCEPT ![r] = @ \cup {"write"}]
              /\ SetPc(r, "sv_check1")
         ELSE /\ SetPc(r, "sv_except")
              /\ UNCHANGED <<files, effects>>
    /\ SetLast(r, 0)
    /\ UNCHANGED <<auxVars, sched, loop, started, separator, cache, job, exc>>
    /\ UNCHANGED jobVars

\* variant: the checkpoint reads the flag and carries on
CheckpointContinue(r, k, paths, next) ==
    /\ Holds(r)
    /\ flagAt' = [flagAt EXCEPT ![r][k] = cancel_event[job[r]]]
    /\ pc' = [pc EXCEPT ![r] = next]
    /\ last' = Resp("separate_vocals", job[r], 0)
    /\ UNCHANGED <<auxVars, sched, loop, started, separator, cache, job, exc, files, effects>>
    /\ UNCHANGED jobVars

\* `if job.is_cancelled(): cleanup_temp_files(paths); raise HTTPException(499)`
Checkpoint(r, k, paths, next) ==
    /\ Holds(r)
    /\ flagAt' = [flagAt EXCEPT ![r][k] = cancel_event[job[r]]]
    /\ IF IsCancelled(job[r])
       THEN /\ files' = [files EXCEPT ![r] = CleanupTempFiles(@, paths)]
            /\ exc' = [exc EXCEPT ![r] = 499]
            /\ SetPc(r, "sv_except_http")
       ELSE /\ SetPc(r, next)
            /\ UNCHANGED <<files, exc>>
    /\ SetLast(r, 0)
    /\ UNCHANGED <<auxVars, sched, loop, started, separator, cache, job, effects>>
    /\ UNCHANGED jobVars

\* lines 167-171
SV_Check1(r) ==
    /\ pc[r] = "sv_check1"
    /\ Checkpoint(r, 1, {"temp_input"}, "sv_verify")

\* lines 173-179: the temp file must exist and be non-empty
SV_Verify(r) ==
    /\ pc[r] = "sv_verify" /\ Holds(r)
    /\ SetPc(r, IF files[r]["temp_input"] = "data" THEN "sv_progress10" ELSE "sv_except")
    /\ SetLast(r, 0)
    /\ UNCHANGED <<auxVars, sched, loop, started, separator, cache, job, exc, files, flagAt, effects>>
    /\ UNCHANGED jobVars

\* line 186
SV_Progress10(r) ==
    /\ pc[r] = "sv_progress10" /\ Holds(r)
    /\ progress' = [progress EXCEPT ![job[r]] = ProgressStarted]
    /\ SetPc(r, "sv_check2")
    /\ SetLast(r, 0)
    /\ UNCHANGED <<auxVars, sched, loop, started, separator, cache, job, exc, files, flagAt, effects>>
    /\ UNCHANGED <<active_jobs, status, error_message, cancel_event, job_type>>

\* lines 188-192
SV_Check2(r) ==
    /\ pc[r] = "sv_check2"
    /\ Checkpoint(r, 2, {"temp_input"}, "sv_separate")

\* line 195: vocals_path, instrumental_path, sr = separator.separate(...)
SV_Separate(r) ==
    /\ pc[r] = "sv_separate" /\ Holds(r)
    /\ \E e \in SepEnvs :
         LET o == WrapperSeparate(separator, e) IN
         /\ effects' = [effects EXCEPT ![r] = @ \cup {"separate"} \cup
                            (IF Favourable(e) THEN {"favourable"} ELSE {})]
         /\ files' = [files EXCEPT
                ![r]["vocals"] = CASE o = "ok" -> "data"
                                   [] o = "fail_before" -> "none"
                                   [] o = "fail_vocals" -> "empty"
                                   [] o = "fail_instrumental" -> "data",
                ![r]["instrumental"] = CASE o = "ok" -> "data"
                                         [] o = "fail_instrumental" -> "empty"
                                         [] OTHER -> "none"]
         /\ SetPc(r, IF o = "ok" THEN "sv_check3" ELSE "sv_except")
    /\ SetLast(r, 0)
    /\ UNCHANGED <<auxVars, sched, loop, started, separator, cache, job, exc, flagAt>>
    /\ UNCHANGED jobVars

\* lines 197-201
SV_Check3(r) ==
    /\ pc[r] = "sv_check3"
    /\ Checkpoint(r, 3, {"temp_input", "vocals", "instrumental"}, "sv_progress80")

\* line 207
SV_Progress80(r) ==
    /\ pc[r] = "sv_progress80" /\ Holds(r)
    /\ progress' = [progress EXCEPT ![job[r]] = ProgressSeparated]
    /\ SetPc(r, "sv_zip")
    /\ SetLast(r, 0)
    /\ UNCHANGED <<auxVars, sched, loop, started, separator, cache, job, exc, files, flagAt, effects>>
    /\ UNCHANGED <<active_jobs, status, error_message, cancel_event, job_type>>

\* lines 209-217: create the ZIP temp file and write both stems into it
SV_Zip(r) ==
    /\ pc[r] = "sv_zip" /\ Holds(r)
    /\ effects' = [effects EXCEPT ![r] = @ \cup {"zip"}]
    /\ \E ok \in BOOLEAN :
         /\ files' = [files EXCEPT ![r]["zip"] = IF ok THEN "data" ELSE "empty"]
         /\ SetPc(r, IF ok THEN "sv_complete" ELSE "sv_except")
    /\ SetLast(r, 0)
    /\ UNCHANGED <<auxVars, sched, loop, started, separator, cache, job, exc, flagAt>>
    /\ UNCHANGED jobVars

\* lines 219-240: progress = 100, status = 'completed', schedule the cleanup
\* and return the FileResponse
SV_Complete(r) ==
    /\ pc[r] = "sv_complete" /\ Holds(r)
    /\ progress' = [progress EXCEPT ![job[r]] = ProgressDone]
    /\ status' = [status EXCEPT ![job[r]] = "completed"]
    /\ SetPc(r, "sv_respond")
    /\ loop' = 0
    /\ SetLast(r, 200)
    /\ UNCHANGED <<auxVars, sched, started, separator, cache, job, exc, files, flagAt, effects>>
    /\ UNCHANGED <<active_jobs, error_message, cancel_event, job_type>>

\* the background task scheduled at lines 223-229, run after the response
SV_Background(r) ==
    /\ pc[r] = "sv_respond"
    /\ files' = [files EXCEPT ![r] = CleanupTempFiles(@, FileNames)]
    /\ SetPc(r, "done")
    /\ last' = Resp("cleanup_temp_files", job[r], 0)
    /\ UNCHANGED <<auxVars, sched, loop, started, separator, cache, job, exc, flagAt, effects>>
    /\ UNCHANGED jobVars

\* lines 242-246: except HTTPException
SV_ExceptHTTP(r) ==
    /\ pc[r] = "sv_except_http" /\ Holds(r)
    /\ status' = [status EXCEPT ![job[r]] = HttpExcStatus(exc[r])]
    /\ error_message' = [error_message EXCEPT ![job[r]] = "Job cancelled"]
    /\ SetPc(r, "done")
    /\ loop' = 0
    /\ SetLast(r, exc[r])
    /\ UNCHANGED <<auxVars, sched, started, separator, cache, job, exc, files, flagAt, effects>>
    /\ UNCHANGED <<active_jobs, progress, cancel_event, job_type>>

\* variant: a failed request drops the process-wide separator
SV_ExceptDropsBackend(r) ==
    /\ pc[r] = "sv_except" /\ Holds(r)
    /\ separator' = None
    /\ files' = [files EXCEPT ![r] = CleanupTempFiles(@, {"temp_input"})]
    /\ status' = [status EXCEPT ![job[r]] = "failed"]
    /\ error_message' = [error_message EXCEPT ![job[r]] = "error"]
    /\ pc' = [pc EXCEPT ![r] = "done"]
    /\ loop' = 0
    /\ last' = Resp("separate_vocals", job[r], 500)
    /\ UNCHANGED <<auxVars, sched, started, cache, job, exc, flagAt, effects>>
    /\ UNCHANGED <<active_jobs, progress, cancel_event, job_type>>

\* lines 247-254: except Exception
SV_Except(r) ==
    /\ pc[r] = "sv_except" /\ Holds(r)
    /\ files' = [files EXCEPT ![r] = CleanupTempFiles(@, {"temp_input"})]
    /\ status' = [status EXCEPT ![job[r]] = "failed"]
    /\ error_message' = [error_message EXCEPT ![job[r]] = "error"]
    /\ SetPc(r, "done")
    /\ loop' = 0
    /\ SetLast(r, 500)
    /\ UNCHANGED <<auxVars, sched, started, separator, cache, job, exc, flagAt, effects>>
    /\ UNCHANGED <<active_jobs, progress, cancel_event, job_type>>

SeparateVocals(r) ==
    \/ SV_Start(r) \/ SV_Read(r) \/ SV_Write(r) \/ SV_Check1(r) \/ SV_Verify(r)
    \/ SV_Progress10(r) \/ SV_Check2(r) \/ SV_Separate(r) \/ SV_Check3(r)
    \/ SV_Progress80(r) \/ SV_Zip(r) \/ SV_Complete(r) \/ SV_Background(r)
    \/ SV_ExceptHTTP(r) \/ SV_Except(r)

\* --------------------------------------------------- POST /get-audio-url
YtLast(r, code) == last' = Resp("get_audio_url", job[r], code)

\* `if job: job.status = s; job.error_message = m` of the except clauses
YtMarkJob(r, s, m) ==
    IF job[r] # 0
    THEN /\ status' = [status EXCEPT ![job[r]] = s]
         /\ error_message' = [error_message EXCEPT ![job[r]] = m]
    ELSE UNCHANGED <<status, error_message>>

\* the detail of the two 500 answers (lines 474 and 481)
DetailFailedToProcess == "500: Failed to process YouTube URL"
DetailUnexpected == "500: An unexpected error occurred"
\* history: yt-dlp raised (DownloadError or any other exception)
YtRaised(o) == IF o \in {"download_error", "error"} THEN {"yt_dlp_raised"} ELSE {}

\* history: the request carried an empty url
UrlEmpty(b) == IF b THEN {"url_empty"} ELSE {}

\* variant: the url is not looked at
YT_StartUnchecked(r) ==
    /\ started /\ Free /\ pc[r] = "idle"
    /\ \E url_empty \in BOOLEAN :
         /\ SetPc(r, "yt_extract")
         /\ last' = Resp("get_audio_url", 0, 0)
         /\ loop' = Take(r)
         /\ effects' = [effects EXCEPT ![r] = @ \cup UrlEmpty(url_empty)]
    /\ UNCHANGED <<auxVars, sched, started, separator, cache, job, exc, files, flagAt>>
    /\ UNCHANGED jobVars

\* lines 353-365: reject an empty url, else make the cache directory
YT_Start(r) ==
    /\ started /\ Free /\ pc[r] = "idle"
    /\ \E url_empty \in BOOLEAN :
         /\ IF url_empty
            THEN /\ SetPc(r, "done")
                 /\ last' = Resp("get_audio_url", 0, 422)
                 /\ UNCHANGED loop
            ELSE /\ SetPc(r, "yt_extract")
                 /\ last' = Resp("get_audio_url", 0, 0)
                 /\ loop' = Take(r)
         /\ effects' = [effects EXCEPT ![r] = @ \cup UrlEmpty(url_empty)]
    /\ UNCHANGED <<auxVars, sched, started, separator, cache, job, exc, files, flagAt>>
    /\ UNCHANGED jobVars

\* lines 367-389: extract_info, cache lookup, job creation on a cache miss
YT_Extract(r) ==
    /\ pc[r] = "yt_extract" /\ Holds(r)
    /\ \E o \in {"ok", "download_error", "error"} :
         IF o = "ok" /\ ~cache
         THEN /\ FreshIds # {}
              /\ CreateJob(NewJobId, "youtube")
              /\ job' = [job EXCEPT ![r] = NewJobId]
              /\ SetPc(r, "yt_progress10")
              /\ last' = Resp("get_audio_url", NewJobId, 0)
              /\ effects' = effects
         ELSE /\ SetPc(r, CASE o = "ok" -> "yt_serve"
                            [] o = "download_error" -> "yt_except_dl"
                            [] o = "error" -> "yt_except")
              /\ YtLast(r, 0)
              /\ UNCHANGED jobVars
              /\ UNCHANGED job
              /\ effects' = [effects EXCEPT ![r] = @ \cup YtRaised(o)]
    /\ UNCHANGED <<auxVars, sched, loop, started, separator, cache, exc, files, flagAt>>

\* line 393
YT_Progress10(r) ==
    /\ pc[r] = "yt_progress10" /\ Holds(r)
    /\ progress' = [progress EXCEPT ![job[r]] = ProgressStarted]
    /\ SetPc(r, "yt_check1")
    /\ YtLast(r, 0)
    /\ UNCHANGED <<auxVars, sched, loop, started, separator, cache, job, exc, files, flagAt, effects>>
    /\ UNCHANGED <<active_jobs, status, error_message, cancel_event, job_type>>

\* lines 407-410: cancellation check before the download
YT_Check1(r) ==
    /\ pc[r] = "yt_check1" /\ Holds(r)
    /\ flagAt' = [flagAt EXCEPT ![r][1] = cancel_event[job[r]]]
    /\ IF IsCancelled(job[r])
       THEN /\ exc' = [exc EXCEPT ![r] = 499]
            /\ SetPc(r, "yt_except_http")
       ELSE /\ SetPc(r, "yt_download")
            /\ UNCHANGED exc
    /\ YtLast(r, 0)
    /\ UNCHANGED <<auxVars, sched, loop, started, separator, cache, job, files, effects>>
    /\ UNCHANGED jobVars

\* lines 412-413: ydl.download
YT_Download(r) ==
    /\ pc[r] = "yt_download" /\ Holds(r)
    /\ \E o \in {"ok", "nofile", "download_error", "error"} :
         /\ cache' = IF o = "ok" THEN TRUE ELSE cache
         /\ SetPc(r, CASE o \in {"ok", "nofile"} -> "yt_check2"
                       [] o = "download_error" -> "yt_except_dl"
                       [] o = "error" -> "yt_except")
         /\ effects' = [effects EXCEPT ![r] = @ \cup YtRaised(o)]
    /\ YtLast(r, 0)
    /\ UNCHANGED <<auxVars, sched, loop, started, separator, job, exc, files, flagAt>>
    /\ UNCHANGED jobVars

\* lines 415-421: cancellation check after the download
YT_Check2(r) ==
    /\ pc[r] = "yt_check2" /\ Holds(r)
    /\ flagAt' = [flagAt EXCEPT ![r][2] = cancel_event[job[r]]]
    /\ IF IsCancelled(job[r])
       THEN /\ cache' = FALSE
            /\ exc' = [exc EXCEPT ![r] = 499]
            /\ SetPc(r, "yt_except_http")
       ELSE /\ SetPc(r, "yt_verify")
            /\ UNCHANGED <<cache, exc>>
    /\ YtLast(r, 0)
    /\ UNCHANGED <<auxVars, sched, loop, started, separator, job, files, effects>>
    /\ UNCHANGED jobVars

\* lines 423-428: the mp3 must exist after the download
YT_Verify(r) ==
    /\ pc[r] = "yt_verify" /\ Holds(r)
    /\ IF ~cache
       THEN /\ YtMarkJob(r, "failed", "MP3 file not found after download")
            /\ exc' = [exc EXCEPT ![r] = 500]
            /\ SetPc(r, "yt_except_http")
       ELSE /\ SetPc(r, "yt_complete")
            /\ UNCHANGED <<status, error_message, exc>>
    /\ YtLast(r, 0)
    /\ UNCHANGED <<auxVars, sched, loop, started, separator, cache, job, files, flagAt, effects>>
    /\ UNCHANGED <<active_jobs, progress, cancel_event, job_type>>

\* lines 435-437
YT_Complete(r) ==
    /\ pc[r] = "yt_complete" /\ Holds(r)
    /\ progress' = [progress EXCEPT ![job[r]] = ProgressDone]
    /\ status' = [status EXCEPT ![job[r]] = "completed"]
    /\ SetPc(r, "yt_serve")
    /\ YtLast(r, 0)
    /\ UNCHANGED <<auxVars, sched, loop, started, separator, cache, job, exc, files, flagAt, effects>>
    /\ UNCHANGED <<active_jobs, error_message, cancel_event, job_type>>

\* lines 443-460: return the FileResponse
YT_Serve(r) ==
    /\ pc[r] = "yt_serve" /\ Holds(r)
    /\ SetPc(r, "done")
    /\ loop' = 0
    /\ YtLast(r, 200)
    /\ UNCHANGED <<auxVars, sched, started, separator, cache, job, exc, files, flagAt, effects>>
    /\ UNCHANGED jobVars

\* lines 462-467: except HTTPException
YT_ExceptHTTP(r) ==
    /\ pc[r] = "yt_except_http" /\ Holds(r)
    /\ YtMarkJob(r, HttpExcStatus(exc[r]),
                 IF exc[r] = 499 THEN "Job cancelled"
                 ELSE "Download succeeded but MP3 file not found in cache")
    /\ SetPc(r, "done")
    /\ loop' = 0
    /\ YtLast(r, exc[r])
    /\ UNCHANGED <<auxVars, sched, started, separator, cache, job, exc, files, flagAt, effects>>
    /\ UNCHANGED <<active_jobs, progress, cancel_event, job_type>>

\* lines 468-474: except yt_dlp.utils.DownloadError
YT_ExceptDL(r) ==
    /\ pc[r] = "yt_except_dl" /\ Holds(r)
    /\ YtMarkJob(r, "failed", "error")
    /\ SetPc(r, "done")
    /\ loop' = 0
    /\ YtLast(r, 500)
    /\ effects' = [effects EXCEPT ![r] = @ \cup {DetailFailedToProcess}]
    /\ UNCHANGED <<auxVars, sched, started, separator, cache, job, exc, files, flagAt>>
    /\ UNCHANGED <<active_jobs, progress, cancel_event, job_type>>

\* lines 475-481: except Exception
YT_Except(r) ==
    /\ pc[r] = "yt_except" /\ Holds(r)
    /\ YtMarkJob(r, "failed", "error")
    /\ SetPc(r, "done")
    /\ loop' = 0
    /\ YtLast(r, 500)
    /\ effects' = [effects EXCEPT ![r] = @ \cup {DetailUnexpected}]
    /\ UNCHANGED <<auxVars, sched, started, separator, cache, job, exc, files, flagAt>>
    /\ UNCHANGED <<active_jobs, progress, cancel_event, job_type>>

GetAudioUrl(r) ==
    \/ YT_Start(r) \/ YT_Extract(r) \/ YT_Progress10(r) \/ YT_Check1(r)
    \/ YT_Download(r) \/ YT_Check2(r) \/ YT_Verify(r) \/ YT_Complete(r)
    \/ YT_Serve(r) \/ YT_ExceptHTTP(r) \/ YT_ExceptDL(r) \/ YT_Except(r)

\* ------------------------------------------------- overlap-add chunker
\* vocal_model/separator.py:57-119 and vocal_model/separator_onnx.py:114-187.
\* Window weights are kept exact: every weight is multiplied by WindowScale.
Variants == {"pytorch", "onnx"}
Channels == 1..2
MinChunk == 10          \* fade_size = C // 10 = 0 makes the window raise
NaN == "nan"

SeqLen(t) == Len(t[1])
Zeros(n) == [ch \in Channels |-> [p \in 1..n |-> 0]]
\* a stereo input whose samples are pairwise different and non-zero
Waveform(L) == [ch \in Channels |-> [p \in 1..L |-> (ch - 1) * L + p]]
Min(a, b) == IF a < b THEN a ELSE b

\* variant: chunks that do not overlap
StepWholeChunk(C, N) == C
Step(C, N) == C \div N
FadeSize(C) == C \div 10
Border(C, N) == C - Step(C, N)

\* linspace(0, 1, f)[k] = k/(f-1) and linspace(1, 0, f)[k] = 1 - k/(f-1);
\* for f = 1 they are [0] and [1]
WindowScale(C) == IF FadeSize(C) >= 2 THEN FadeSize(C) - 1 ELSE 1
FadeIn(C, k) == k
FadeOut(C, k) == WindowScale(C) - k

\* _get_windowing_array: ones, last f entries times fadeout, first f entries
\* times fadein (index k is the 0-based offset k - 1)
WindowingArray(C) ==
    [k \in 1..C |->
        LET o == k - 1
            f == FadeSize(C)
            wout == IF o >= C - f THEN FadeOut(C, o - (C - f)) ELSE WindowScale(C)
            win == IF o < f THEN FadeIn(C, o) ELSE WindowScale(C)
        IN (wout * win) \div WindowScale(C)]

\* np.pad / F.pad with mode "reflect": the edge sample is not repeated
ReflectLeft(s, n) == [k \in 1..n |-> s[n + 2 - k]]
ReflectRight(s, n) == [k \in 1..n |-> s[Len(s) - k]]
ReflectBoth(s, n) == ReflectLeft(s, n) \o s \o ReflectRight(s, n)

IsPadded(t, C, N) == SeqLen(t) > 2 * Border(C, N) /\ Border(C, N) > 0

\* the last chunk is shorter than C: the reference separator always
\* reflect-pads (F.pad raises unless the pad is shorter than the input), the
\* ONNX separator zero-pads when the chunk is not longer than the pad
TailPadRaises(v, s, C) ==
    v = "pytorch" /\ Len(s) < C /\ ~(Len(s) > C - Len(s))

\* which pad the variant asks for on a chunk of `length` < C samples
TailPadMode(v, length, C) ==
    IF v = "onnx" /\ ~(length > C - length) THEN "constant" ELSE "reflect"

TailPad(v, s, C) ==
    LET pad_amount == C - Len(s) IN
    IF Len(s) >= C THEN s
    ELSE IF Len(s) > pad_amount THEN s \o ReflectRight(s, pad_amount)
    ELSE s \o [k \in 1..pad_amount |-> 0]

\* the model call, replaced by the identity function
Infer(part) == part

\* the estimator raises on the call that follows n earlier calls
InferRaises(n) == fail_at = n

\* result / counter elementwise (0/0 is nan)
Divide(r, c) ==
    IF c = 0 THEN NaN
    ELSE IF r % c = 0 THEN r \div c
    ELSE <<r, c>>

\* separator.py:77-89, separator_onnx.py:134-151
ChunkPad ==
    /\ cpc = "start"
    /\ LET C == chunk_size
           N == num_overlap
           p == IsPadded(audio_tensor, C, N)
           m == IF p THEN [ch \in Channels |-> ReflectBoth(audio_tensor[ch], Border(C, N))]
                     ELSE audio_tensor
       IN /\ padded' = p
          /\ mix' = m
          /\ result' = Zeros(SeqLen(m))
          /\ counter' = Zeros(SeqLen(m))
    /\ ci' = 0
    /\ cpc' = "loop"
    /\ UNCHANGED <<variant, chunk_size, num_overlap, audio_tensor, estimated_vocals,
                   fail_at, calls, pads>>
    /\ UNCHANGED <<selVars, mainVars, wrapVars, remoteVars>>

\* one iteration of `for i in range(0, total_length, step)`
ChunkStep ==
    /\ cpc = "loop" /\ ci < SeqLen(mix)
    /\ LET C == chunk_size
           length == Min(C, SeqLen(mix) - ci)
           w == WindowingArray(C)
           slice == [ch \in Channels |-> SubSeq(mix[ch], ci + 1, ci + length)]
           part == [ch \in Channels |-> TailPad(variant, slice[ch], C)]
       IN /\ pads' = IF length < C
                     THEN Append(pads, [mode |-> TailPadMode(variant, length, C),
                                        length |-> length, pad_amount |-> C - length])
                     ELSE pads
          /\ IF \E ch \in Channels : TailPadRaises(variant, slice[ch], C)
             THEN /\ cpc' = "raised"
                  /\ UNCHANGED <<result, counter, ci, calls>>
             ELSE IF InferRaises(Len(calls))
             THEN /\ calls' = Append(calls, ci)
                  /\ cpc' = "infer_raised"
                  /\ UNCHANGED <<result, counter, ci>>
             ELSE LET processed_chunk == [ch \in Channels |-> Infer(part[ch])] IN
                  /\ result' = [ch \in Channels |-> [p \in 1..SeqLen(mix) |->
                        IF p > ci /\ p <= ci + length
                        THEN result[ch][p] + processed_chunk[ch][p - ci] * w[p - ci]
                        ELSE result[ch][p]]]
                  /\ counter' = [ch \in Channels |-> [p \in 1..SeqLen(mix) |->
                        IF p > ci /\ p <= ci + length
                        THEN counter[ch][p] + w[p - ci]
                        ELSE counter[ch][p]]]
                  /\ calls' = Append(calls, ci)
                  /\ ci' = ci + Step(C, num_overlap)
                  /\ cpc' = "loop"
    /\ UNCHANGED <<variant, chunk_size, num_overlap, audio_tensor, mix, padded,
                   estimated_vocals, fail_at>>
    /\ UNCHANGED <<selVars, mainVars, wrapVars, remoteVars>>

\* variant: the border is never stripped
ChunkNormaliseNoStrip ==
    /\ cpc = "loop" /\ ci >= SeqLen(mix)
    /\ estimated_vocals' = [ch \in Channels |-> [p \in 1..SeqLen(mix) |->
                               Divide(result[ch][p], counter[ch][p])]]
    /\ cpc' = "done"
    /\ UNCHANGED <<variant, chunk_size, num_overlap, audio_tensor, mix, padded,
                   result, counter, ci, fail_at, calls, pads>>
    /\ UNCHANGED <<selVars, mainVars, wrapVars, remoteVars>>

\* separator.py:114-119, separator_onnx.py:181-187
ChunkNormalise ==
    /\ cpc = "loop" /\ ci >= SeqLen(mix)
    /\ LET b == Border(chunk_size, num_overlap)
           q == [ch \in Channels |-> [p \in 1..SeqLen(mix) |->
                     Divide(result[ch][p], counter[ch][p])]]
           strip == IF variant = "onnx" THEN padded ELSE IsPadded(mix, chunk_size, num_overlap)
       IN estimated_vocals' =
             IF strip THEN [ch \in Channels |-> SubSeq(q[ch], b + 1, SeqLen(mix) - b)]
             ELSE q
    /\ cpc' = "done"
    /\ UNCHANGED <<variant, chunk_size, num_overlap, audio_tensor, mix, padded,
                   result, counter, ci, fail_at, calls, pads>>
    /\ UNCHANGED <<selVars, mainVars, wrapVars, remoteVars>>

\* variant: an exception of the adapter is swallowed and the stems are written
SV_SeparateChunkedSwallow(r) ==
    /\ pc[r] = "sv_separate" /\ Holds(r)
    /\ cpc \in {"done", "raised", "infer_raised"}
    /\ effects' = [effects EXCEPT ![r] = @ \cup {"separate"}]
    /\ files' = [files EXCEPT ![r]["vocals"] = "data", ![r]["instrumental"] = "data"]
    /\ SetPc(r, "sv_check3")
    /\ cpc' = "returned"
    /\ SetLast(r, 0)
    /\ UNCHANGED <<selVars, wrapVars, remoteVars, sched, loop, started, separator, cache, job, exc, flagAt>>
    /\ UNCHANGED <<variant, chunk_size, num_overlap, audio_tensor, mix, padded,
                   result, counter, ci, estimated_vocals, fail_at, calls, pads>>
    /\ UNCHANGED jobVars

\* main.py:195 with the adapter call played out chunk by chunk: an exception
\* of the chunker leaves the wrapper before the stems are written
\* (backend/separator.py:172-184) and reaches the handler's except clause
SV_SeparateChunked(r) ==
    /\ pc[r] = "sv_separate" /\ Holds(r)
    /\ cpc \in {"done", "raised", "infer_raised"}
    /\ \E e \in {x \in SepEnvs : x.decodable /\ x.adapter_ok = (cpc = "done")} :
         LET o == WrapperSeparate(separator, e) IN
         /\ effects' = [effects EXCEPT ![r] = @ \cup {"separate"} \cup
                            (IF Favourable(e) THEN {"favourable"} ELSE {})]
         /\ files' = [files EXCEPT
                ![r]["vocals"] = CASE o = "ok" -> "data"
                                   [] o = "fail_before" -> "none"
                                   [] o = "fail_vocals" -> "empty"
                                   [] o = "fail_instrumental" -> "data",
                ![r]["instrumental"] = CASE o = "ok" -> "data"
                                         [] o = "fail_instrumental" -> "empty"
                                         [] OTHER -> "none"]
         /\ SetPc(r, IF o = "ok" THEN "sv_check3" ELSE "sv_except")
    /\ cpc' = IF cpc = "done" THEN "returned" ELSE "propagated"
    /\ SetLast(r, 0)
    /\ UNCHANGED <<selVars, wrapVars, remoteVars, sched, loop, started, separator, cache, job, exc, flagAt>>
    /\ UNCHANGED <<variant, chunk_size, num_overlap, audio_tensor, mix, padded,
                   result, counter, ci, estimated_vocals, fail_at, calls, pads>>
    /\ UNCHANGED jobVars

ChunkIdle ==
    /\ variant = "none" /\ chunk_size = 0 /\ num_overlap = 0
    /\ audio_tensor = Zeros(0) /\ mix = Zeros(0) /\ padded = FALSE
    /\ result = Zeros(0) /\ counter = Zeros(0)
    /\ ci = 0 /\ cpc = "idle" /\ estimated_vocals = Zeros(0)
    /\ fail_at = -1 /\ calls = <<>> /\ pads = <<>>

\* --------------------------------------- wrapper separate(audio_path)
\* backend/separator.py:131-186 (and vocal_model/separator.py:121-164).
\* float32 is modelled as a binary format with MantissaBits significant bits
\* over the integers: arithmetic is exact arithmetic followed by rounding to
\* nearest, ties to even.
MantissaBits == 3
TargetSr == 44100
Rates == {22050, 44100, 48000}

Pow2(n) == IF n = 0 THEN 1 ELSE IF n = 1 THEN 2 ELSE IF n = 2 THEN 4
           ELSE IF n = 3 THEN 8 ELSE IF n = 4 THEN 16 ELSE IF n = 5 THEN 32
           ELSE IF n = 6 THEN 64 ELSE 128
Abs(x) == IF x < 0 THEN -x ELSE x
\* the spacing of representable values at magnitude |x|
Ulp(x) == LET e == CHOOSE k \in 0..4 : Abs(x) < Pow2(MantissaBits + k)
                     /\ (k = 0 \/ Abs(x) >= Pow2(MantissaBits + k - 1))
          IN Pow2(e)
\* round to nearest representable value, ties to even
Round(x) ==
    LET q == Ulp(x)
        lo == (Abs(x) \div q) * q
        rem == Abs(x) - lo
        up == IF 2 * rem > q THEN TRUE
              ELSE IF 2 * rem < q THEN FALSE
              ELSE (lo \div q) % 2 = 1
        m == IF up THEN lo + q ELSE lo
    IN IF x < 0 THEN -m ELSE m

Num(x) == [nan |-> FALSE, v |-> x]
NaNf == [nan |-> TRUE, v |-> 0]
FSub(a, b) == IF a.nan \/ b.nan THEN NaNf ELSE Num(Round(a.v - b.v))
FAdd(a, b) == IF a.nan \/ b.nan THEN NaNf ELSE Num(Round(a.v + b.v))
\* numpy float64 -> torch float32 (`.float()`)
ToFloat32(x) == Num(Round(x))
FloatVals == {Num(x) : x \in {y \in -MaxSample..MaxSample : Round(y) = y}} \cup {NaNf}

\* librosa.resample: the frame count becomes ceil(n * target / orig); each
\* output frame is taken from the input frame at the same time position
Resample(t, orig_sr, target_sr) ==
    [ch \in DOMAIN t |->
        [k \in 1..((Len(t[ch]) * target_sr + orig_sr - 1) \div orig_sr) |->
            t[ch][(((k - 1) * orig_sr) \div target_sr) + 1]]]

\* lines 153-157: a 1-D or one-row tensor is repeated, anything else is kept
EnsureStereo(t) ==
    IF Len(t) = 1 THEN <<t[1], t[1]>> ELSE t

WrapUnchanged == UNCHANGED <<selVars, mainVars, chunkVars, remoteVars>>

\* lines 145-151: sf.read, transpose, torch.from_numpy(wav).float()
WrapLoad ==
    /\ wpc = "load"
    /\ original_tensor' = [ch \in DOMAIN wav |-> [k \in DOMAIN wav[ch] |-> ToFloat32(wav[ch][k])]]
    /\ rate' = sr
    /\ wpc' = "stereo"
    /\ UNCHANGED <<wav, sr, vocals_tensor, instrumental_tensor>>
    /\ WrapUnchanged

\* lines 153-157
WrapStereo ==
    /\ wpc = "stereo"
    /\ original_tensor' = EnsureStereo(original_tensor)
    /\ wpc' = "resample"
    /\ UNCHANGED <<wav, sr, rate, vocals_tensor, instrumental_tensor>>
    /\ WrapUnchanged

\* lines 159-169
WrapResample ==
    /\ wpc = "resample"
    /\ IF sr # TargetSr
       THEN /\ original_tensor' = Resample(original_tensor, sr, TargetSr)
            /\ rate' = TargetSr
       ELSE UNCHANGED <<original_tensor, rate>>
    /\ wpc' = "separate"
    /\ UNCHANGED <<wav, sr, vocals_tensor, instrumental_tensor>>
    /\ WrapUnchanged

\* line 172: the adapter returns some tensor of the shape it was given
WrapSeparate ==
    /\ wpc = "separate"
    /\ \E v \in FloatVals :
          vocals_tensor' = [ch \in DOMAIN original_tensor |->
                               [k \in DOMAIN original_tensor[ch] |-> v]]
    /\ wpc' = "subtract"
    /\ UNCHANGED <<wav, sr, original_tensor, rate, instrumental_tensor>>
    /\ WrapUnchanged

\* variant: the operands of the subtraction are exchanged
WrapSubtractSwapped ==
    /\ wpc = "subtract"
    /\ instrumental_tensor' = [ch \in DOMAIN original_tensor |->
                                 [k \in DOMAIN original_tensor[ch] |->
                                     FSub(vocals_tensor[ch][k], original_tensor[ch][k])]]
    /\ wpc' = "done"
    /\ UNCHANGED <<wav, sr, original_tensor, rate, vocals_tensor>>
    /\ WrapUnchanged

\* line 175: instrumental_tensor = original_tensor - vocals_tensor.cpu()
WrapSubtract ==
    /\ wpc = "subtract"
    /\ instrumental_tensor' = [ch \in DOMAIN original_tensor |->
                                 [k \in DOMAIN original_tensor[ch] |->
                                     FSub(original_tensor[ch][k], vocals_tensor[ch][k])]]
    /\ wpc' = "done"
    /\ UNCHANGED <<wav, sr, original_tensor, rate, vocals_tensor>>
    /\ WrapUnchanged

WrapIdle ==
    /\ wpc = "idle" /\ wav = <<>> /\ sr = 0 /\ original_tensor = <<>> /\ rate = 0
    /\ vocals_tensor = <<>> /\ instrumental_tensor = <<>>

\* ------------------------------ RemoteCUDAVocalSeparator.separate
\* backend/separator_remote.py:63-108, against the peer of lines 130-158.
\* The peer's `return {"error": ...}, 503` and `return {"error": ...}, 404`
\* are plain return values of a FastAPI endpoint: the tuple is sent as a JSON
\* list with status 200.
DefaultRate == 44100
PeerRates == {0, 44100, 48000}
PostAnswers ==
    {[kind |-> k, status |-> 0, rate |-> 0] : k \in {"connect_error"}}
    \cup {[kind |-> "error", status |-> 500, rate |-> 0]}
    \cup {[kind |-> "not_initialized", status |-> 200, rate |-> 0]}
    \cup {[kind |-> "ok", status |-> 200, rate |-> x] : x \in PeerRates}
DownloadAnswers ==
    {[kind |-> "connect_error", status |-> 0, rate |-> 0],
     [kind |-> "error", status |-> 404, rate |-> 0],
     [kind |-> "not_found", status |-> 200, rate |-> 0],
     [kind |-> "ok", status |-> 200, rate |-> 0]}
NoStems == [vocals |-> "none", instrumental |-> "none"]
\* what a GET answer leaves in the local file
Body(a) == IF a.kind = "ok" THEN "audio" ELSE "error_body"

RemoteUnchanged == UNCHANGED <<selVars, mainVars, chunkVars, wrapVars>>

\* lines 74-88: POST the file, raise unless status_code is 200, parse the JSON
RemotePost ==
    /\ rpc = "post"
    /\ \E a \in PostAnswers :
          /\ answers' = Append(answers, a)
          /\ IF a.kind = "connect_error" \/ a.status # 200
             THEN /\ rpc' = "done" /\ routcome' = "raised"
                  /\ UNCHANGED <<rresult, rrate>>
             ELSE /\ rpc' = "tempfiles" /\ routcome' = routcome
                  /\ rresult' = IF a.kind = "ok" THEN "urls" ELSE "error_list"
                  /\ rrate' = a.rate
    /\ UNCHANGED rfiles
    /\ RemoteUnchanged

\* lines 90-92: the two NamedTemporaryFile(delete=False)
RemoteTempFiles ==
    /\ rpc = "tempfiles"
    /\ rfiles' = [vocals |-> "empty", instrumental |-> "empty"]
    /\ rpc' = "get_vocals"
    /\ UNCHANGED <<rresult, rrate, routcome, answers>>
    /\ RemoteUnchanged

\* lines 94-102: result['..._url'] (TypeError on a list), client.get, write
\* response.content; the status of the GET is not looked at
RemoteGet(which, next) ==
    /\ IF rresult # "urls"
       THEN /\ rpc' = "done" /\ routcome' = "raised"
            /\ UNCHANGED <<rfiles, answers>>
       ELSE \E a \in DownloadAnswers :
            /\ answers' = Append(answers, a)
            /\ IF a.kind = "connect_error"
               THEN /\ rpc' = "done" /\ routcome' = "raised"
                    /\ UNCHANGED rfiles
               ELSE /\ rfiles' = [rfiles EXCEPT ![which] = Body(a)]
                    /\ rpc' = next /\ routcome' = routcome
    /\ UNCHANGED <<rresult, rrate>>
    /\ RemoteUnchanged

RemoteGetVocals == rpc = "get_vocals" /\ RemoteGet("vocals", "get_inst")
RemoteGetInst == rpc = "get_inst" /\ RemoteGet("instrumental", "return")

\* lines 104-108: sample_rate = result.get('sample_rate', 44100); return
RemoteReturn ==
    /\ rpc = "return"
    /\ rrate' = IF rrate = 0 THEN DefaultRate ELSE rrate
    /\ routcome' = "returned"
    /\ rpc' = "done"
    /\ UNCHANGED <<rresult, rfiles, answers>>
    /\ RemoteUnchanged

RemoteIdle ==
    /\ rpc = "idle" /\ rresult = "none" /\ rfiles = NoStems /\ rrate = 0
    /\ routcome = "none" /\ answers = <<>>

\* ---------------------------------------------------------- specification
InitCommon ==
    /\ loop = 0
    /\ started = FALSE
    /\ separator = None
    /\ active_jobs = {}
    /\ status = [j \in JobIds |-> "none"]
    /\ progress = [j \in JobIds |-> 0]
    /\ error_message = [j \in JobIds |-> None]
    /\ cancel_event = [j \in JobIds |-> FALSE]
    /\ job_type = [j \in JobIds |-> None]
    /\ pc = [r \in Reqs |-> "idle"]
    /\ job = [r \in Reqs |-> 0]
    /\ exc = [r \in Reqs |-> 0]
    /\ files = [r \in Reqs |-> NoFiles]
    /\ cache \in BOOLEAN
    /\ flagAt = [r \in Reqs |-> [k \in 0..3 |-> FALSE]]
    /\ effects = [r \in Reqs |-> {}]
    /\ last = Resp("none", 0, 0)
    /\ attempts = <<>>
    /\ held = None
    /\ backend_type = "unknown"

\* In Spec and SpecWorkers start-up is the single step Startup.
Init == sched = "loop" /\ InitCommon /\ env = NoEnv /\ ctor = "idle" /\ ChunkIdle /\ WrapIdle /\ RemoteIdle
InitWorkers == sched = "workers" /\ InitCommon /\ env = NoEnv /\ ctor = "idle" /\ ChunkIdle /\ WrapIdle /\ RemoteIdle

Next ==
    \/ Startup
    \/ \E j \in JobIds : CancelJob(j)
    \/ \E j \in JobIds : DeleteJob(j)
    \/ \E j \in JobIds : GetJobStatus(j)
    \/ ListJobs
    \/ \E r \in Reqs : SeparateVocals(r)
    \/ \E r \in Reqs : GetAudioUrl(r)

\* The separation pipeline and the registry operations that change a job,
\* interleaved step by step.
NextWorkers ==
    \/ Startup
    \/ \E j \in JobIds : CancelJob(j)
    \/ \E j \in JobIds : DeleteJob(j)
    \/ \E r \in 1..MaxWorkers : SeparateVocals(r)

\* Start-up alone, for every environment.
InitSelect == sched = "loop" /\ InitCommon /\ env \in Envs /\ ctor = "remote" /\ ChunkIdle /\ WrapIdle /\ RemoteIdle
NextSelect == CtorRemote \/ CtorOnnx \/ CtorPytorch \/ StartupAssign
SpecSelect == InitSelect /\ [][NextSelect]_vars

\* One call of separate() of either adapter, for every bounded input.
\* The handler of request 1 has reached main.py:195 with job 1.
AtSeparate(b) ==
    /\ loop = 1 /\ started = TRUE /\ separator = b
    /\ active_jobs = {1}
    /\ status = [j \in JobIds |-> IF j = 1 THEN "running" ELSE "none"]
    /\ progress = [j \in JobIds |-> IF j = 1 THEN ProgressStarted ELSE 0]
    /\ error_message = [j \in JobIds |-> None]
    /\ cancel_event = [j \in JobIds |-> FALSE]
    /\ job_type = [j \in JobIds |-> IF j = 1 THEN "vocal_separation" ELSE None]
    /\ pc = [r \in Reqs |-> IF r = 1 THEN "sv_separate" ELSE "idle"]
    /\ job = [r \in Reqs |-> IF r = 1 THEN 1 ELSE 0]
    /\ exc = [r \in Reqs |-> 0]
    /\ files = [r \in Reqs |-> IF r = 1 THEN [NoFiles EXCEPT !["temp_input"] = "data"]
                                         ELSE NoFiles]
    /\ cache \in BOOLEAN
    /\ flagAt = [r \in Reqs |-> [k \in 0..3 |-> FALSE]]
    /\ effects = [r \in Reqs |-> IF r = 1 THEN {"write"} ELSE {}]
    /\ last = Resp("separate_vocals", 1, 0)
    /\ attempts = <<>> /\ held = None /\ backend_type = "unknown"

InitChunk ==
    /\ sched = "loop" /\ env = NoEnv /\ ctor = "idle"
    /\ variant \in Variants
    /\ AtSeparate(variant)
    /\ chunk_size \in MinChunk..MaxChunk
    /\ num_overlap \in 1..MaxOverlap
    /\ \E L \in 1..MaxLen : audio_tensor = Waveform(L)
    /\ mix = audio_tensor /\ padded = FALSE
    /\ result = Zeros(0) /\ counter = Zeros(0)
    /\ ci = 0 /\ cpc = "start" /\ estimated_vocals = Zeros(0)
    /\ fail_at \in -1..MaxFail /\ calls = <<>> /\ pads = <<>>
    /\ WrapIdle /\ RemoteIdle
NextChunk ==
    \/ ChunkPad \/ ChunkStep \/ ChunkNormalise
    \/ SV_SeparateChunked(1) \/ SV_Except(1)
SpecChunk == InitChunk /\ [][NextChunk]_vars

\* One call of the wrapper's separate() for every bounded input file.
InitWrap ==
    /\ sched = "loop" /\ InitCommon /\ env = NoEnv /\ ctor = "idle" /\ ChunkIdle
    /\ RemoteIdle
    /\ wpc = "load"
    /\ \E n \in 1..MaxChannels, L \in 1..MaxFrames, x \in -MaxSample..MaxSample :
          wav = [ch \in 1..n |-> [k \in 1..L |-> IF ch % 2 = 1 THEN x ELSE -x]]
    /\ sr \in Rates
    /\ original_tensor = <<>> /\ rate = 0
    /\ vocals_tensor = <<>> /\ instrumental_tensor = <<>>
NextWrap == WrapLoad \/ WrapStereo \/ WrapResample \/ WrapSeparate \/ WrapSubtract
SpecWrap == InitWrap /\ [][NextWrap]_vars

\* One call of the remote client's separate() against every peer behaviour.
InitRemote ==
    /\ sched = "loop" /\ InitCommon /\ env = NoEnv /\ ctor = "idle"
    /\ ChunkIdle /\ WrapIdle
    /\ rpc = "post" /\ rresult = "none" /\ rfiles = NoStems /\ rrate = 0
    /\ routcome = "none" /\ answers = <<>>
NextRemote ==
    RemotePost \/ RemoteTempFiles \/ RemoteGetVocals \/ RemoteGetInst \/ RemoteReturn
SpecRemote == InitRemote /\ [][NextRemote]_vars

Spec == Init /\ [][Next]_vars
SpecWorkers == InitWorkers /\ [][NextWorkers]_vars

TypeOK ==
    /\ sched \in {"loop", "workers"}
    /\ loop \in 0..MaxReqs
    /\ separator \in Backends \cup {None}
    /\ active_jobs \subseteq JobIds
    /\ \A j \in JobIds : status[j] \in Statuses \cup {"none"}
    /\ \A j \in active_jobs : status[j] \in Statuses
    /\ \A r \in Reqs : job[r] \in JobIds \cup {0}

\* ================================================================ claims
IsSeparation(r) == job[r] # 0 /\ job_type[job[r]] = "vocal_separation"

JobRecord(j) == <<status[j], progress[j], error_message[j], cancel_event[j], job_type[j]>>

\* C1: once a job's status is completed, failed or cancelled, no later step
\* of a handler and no registry operation changes that job's status.
C1_TerminalAbsorbing ==
    [][\A j \in JobIds : status[j] \in Terminal => status'[j] = status[j]]_vars

\* C2: cancel on a running job sets the cancellation flag and the status
\* cancelled in the same step and answers 200; a delete of a registered job
\* whose flag is set answers 200 and removes the record.
C2_CancelThenDelete ==
    [][\A j \in JobIds :
        /\ (last'.op = "cancel_job" /\ last'.id = j /\ j \in active_jobs
                /\ status[j] = "running")
              => (cancel_event'[j] /\ status'[j] = "cancelled" /\ last'.code = 200)
        /\ (last'.op = "delete_job" /\ last'.id = j /\ j \in active_jobs
                /\ cancel_event[j])
              => (last'.code = 200 /\ j \notin active_jobs')]_vars

C2_Witness ==
    \E j \in JobIds :
        cancel_event[j] /\ j \notin active_jobs /\ last = Resp("delete_job", j, 200)

\* C3: cancel on a registered job that is not running answers 400 and leaves
\* the job's status, progress, error_message and flag unchanged; cancel on an
\* unknown id answers 404 and leaves the registry and every record unchanged.
C3_CancelRejected ==
    [][\A j \in JobIds :
        (last'.op = "cancel_job" /\ last'.id = j) =>
            /\ (j \in active_jobs /\ status[j] # "running")
                  => (last'.code = 400 /\ JobRecord(j)' = JobRecord(j)
                        /\ active_jobs' = active_jobs)
            /\ (j \notin active_jobs)
                  => (last'.code = 404 /\ UNCHANGED jobVars)]_vars

C3_Witness ==
    \E j \in JobIds :
        /\ j \in active_jobs /\ status[j] = "completed" /\ ~cancel_event[j]
        /\ last = Resp("cancel_job", j, 400)

\* C4: a record leaves the registry only in a delete_job step that answers
\* 200 and only when its status is terminal; delete of a running job answers
\* 400 and leaves the registry unchanged.
C4_RemovalOnlyByDelete ==
    [][\A j \in JobIds :
        /\ (j \in active_jobs /\ j \notin active_jobs')
              => (last' = Resp("delete_job", j, 200) /\ status[j] \in Terminal)
        /\ (last'.op = "delete_job" /\ last'.id = j /\ j \in active_jobs
                /\ status[j] = "running")
              => (last'.code = 400 /\ active_jobs' = active_jobs)]_vars

C4_Witness ==
    \E j \in JobIds :
        /\ j \in active_jobs /\ status[j] = "running"
        /\ last = Resp("delete_job", j, 400)

\* C5: every job's progress is an integer in 0..100 and no step lowers it.
C5_ProgressMonotone ==
    /\ [](\A j \in JobIds : progress[j] \in 0..100)
    /\ [][\A j \in JobIds : progress'[j] >= progress[j]]_vars

C5_Witness ==
    \E j \in JobIds : status[j] = "completed" /\ progress[j] = ProgressDone

\* C6: a job's progress changes only in a step that starts with the job's
\* status equal to running.
C6_ProgressOnlyWhileRunning ==
    [][\A j \in JobIds : progress'[j] # progress[j] => status[j] = "running"]_vars

C6_Witness ==
    \E r \in Reqs :
        /\ IsSeparation(r) /\ pc[r] = "done"
        /\ cancel_event[job[r]] /\ progress[job[r]] = 0
        /\ "write" \in effects[r]

\* C7: a handler that creates a job registers it under an id that is not in
\* the registry, with status running, progress 0, no error message and an
\* unset flag, and leaves every other record and registry entry as it was.
C7_CreateFresh ==
    [][\A r \in Reqs :
        (job[r] = 0 /\ job'[r] # 0) =>
            LET j == job'[r] IN
            /\ j \notin active_jobs
            /\ active_jobs' = active_jobs \cup {j}
            /\ status'[j] = "running" /\ progress'[j] = 0
            /\ error_message'[j] = None /\ ~cancel_event'[j]
            /\ \A k \in JobIds \ {j} : JobRecord(k)' = JobRecord(k)]_vars

C7_Witness ==
    \E r1 \in Reqs, r2 \in Reqs :
        /\ r1 # r2 /\ pc[r1] = "sv_read" /\ pc[r2] = "sv_read"
        /\ job[r1] # job[r2]
        /\ {job[r1], job[r2]} \subseteq active_jobs

\* C8 (as stated): when the cancellation flag is set at the moment the
\* handler writes the uploaded content, the input copy is never written.
C8_NoWriteWhenCancelled ==
    \A r \in Reqs : flagAt[r][0] => "write" \notin effects[r]

\* C8 (amended): the first checkpoint follows the write.  When the flag is
\* set at the moment of the write, the separator is never invoked, no ZIP is
\* created, and when the handler has ended the job is not completed and no
\* temp file of the request is left; a cancellation observed at checkpoint 1
\* is observed after the input copy was written.
C8_CheckpointAfterWrite ==
    \A r \in Reqs :
        /\ flagAt[r][0] =>
              /\ "separate" \notin effects[r]
              /\ "zip" \notin effects[r]
              /\ pc[r] = "done" =>
                    (files[r] = NoFiles /\ status[job[r]] # "completed")
        /\ (IsSeparation(r) /\ flagAt[r][1]) => "write" \in effects[r]

C8_Witness ==
    \E r \in Reqs :
        /\ flagAt[r][0] /\ flagAt[r][1] /\ "write" \in effects[r]
        /\ pc[r] = "done" /\ status[job[r]] = "cancelled"

\* C9: when the flag is set at the checkpoint preceding separation the
\* separator is never invoked for that job; when it is set at the checkpoint
\* following separation no ZIP is created and the job never becomes completed.
C9_CheckpointsStopPipeline ==
    \A r \in Reqs :
        IsSeparation(r) =>
            /\ flagAt[r][2] => "separate" \notin effects[r]
            /\ flagAt[r][3] =>
                  ("zip" \notin effects[r] /\ status[job[r]] # "completed")

C9_Witness ==
    \E r \in Reqs :
        /\ IsSeparation(r) /\ flagAt[r][3] /\ ~flagAt[r][2]
        /\ "separate" \in effects[r] /\ pc[r] = "done"

\* C10: once a separation handler has observed cancellation at a checkpoint,
\* the input copy and both stem files are gone, and when the handler has
\* ended the job's status is cancelled.
C10_CancelledCleansUp ==
    \A r \in Reqs :
        (IsSeparation(r) /\ \E k \in Checkpoints : flagAt[r][k]) =>
            /\ files[r]["temp_input"] = "none"
            /\ files[r]["vocals"] = "none"
            /\ files[r]["instrumental"] = "none"
            /\ pc[r] = "done" => status[job[r]] = "cancelled"

C10_Witness ==
    \E r \in Reqs :
        /\ IsSeparation(r) /\ flagAt[r][1] /\ pc[r] = "done"
        /\ files[r] = NoFiles /\ error_message[job[r]] = "Job cancelled"

\* C11: when a separation request has ended with its job failed, none of
\* the temp files it created (input copy, stems, ZIP) is left.
C11_NoOrphanedTempFiles ==
    \A r \in Reqs :
        (IsSeparation(r) /\ pc[r] = "done" /\ status[job[r]] = "failed")
            => files[r] = NoFiles

\* C12: a separation request that is answered with an error (4xx/5xx) leaves
\* a record in the registry with a terminal status and an error message.
C12_FailureLeavesRecord ==
    [][\A r \in Reqs :
        (pc[r] # "done" /\ pc'[r] = "done" /\ last'.op = "separate_vocals"
            /\ last'.code >= 400)
          => /\ job'[r] \in active_jobs'
             /\ status'[job'[r]] \in Terminal
             /\ error_message'[job'[r]] # None]_vars

\* C14: when start-up ended with no separator, a separation request is
\* answered 503 in its first step, creates no job and no temp file and
\* changes no record; the registry endpoints still answer (200 for a
\* registered id, 404 for an unknown one, and delete removes a terminal job).
C14_UnavailableWithoutBackend ==
    [][(started /\ ~(separator # None)) =>
        /\ \A r \in Reqs :
              (pc[r] = "idle" /\ pc'[r] # "idle" /\ last'.op = "separate_vocals")
                => /\ last' = Resp("separate_vocals", 0, 503)
                   /\ pc'[r] = "done" /\ job'[r] = 0 /\ files'[r] = NoFiles
                   /\ UNCHANGED jobVars
        /\ \A j \in JobIds :
              /\ (last'.op = "get_job_status" /\ last'.id = j)
                    => last'.code = (IF j \in active_jobs THEN 200 ELSE 404)
              /\ (last'.op = "delete_job" /\ last'.id = j /\ j \in active_jobs)
                    => (last'.code = 200 /\ j \notin active_jobs')
        /\ last'.op = "list_jobs" => last'.code = 200]_vars

C14_Witness ==
    /\ started /\ ~(separator # None)
    /\ \E r \in Reqs : pc[r] = "done" /\ job[r] = 0
    /\ \E j \in JobIds : j \in active_jobs /\ status[j] = "completed"
    /\ last = Resp("separate_vocals", 0, 503)

\* C15: once start-up has run, no step changes the process-wide separator.
C15_BackendFixedAfterStartup ==
    [][started => (separator' = separator /\ started')]_vars

C15_Witness ==
    /\ started /\ separator # None
    /\ \E r1 \in Reqs, r2 \in Reqs :
          /\ r1 # r2 /\ pc[r1] = "done" /\ pc[r2] = "done"
          /\ IsSeparation(r1) /\ IsSeparation(r2)
          /\ status[job[r1]] = "failed" /\ status[job[r2]] = "completed"

\* C17: with any active backend, a separation call that meets a decodable
\* input, an adapter that does not fail and successful stem writes returns
\* normally: the request is not on the error path and its job is not failed
\* unless it got as far as building the ZIP.
C17_EveryBackendSeparates ==
    \A r \in Reqs :
        (IsSeparation(r) /\ "favourable" \in effects[r] /\ "zip" \notin effects[r])
            => (pc[r] # "sv_except" /\ status[job[r]] # "failed")

\* C13: candidates are tried in the order remote, ONNX, PyTorch; every
\* attempt before the last one failed; a failed remote or ONNX attempt is
\* followed by the next stage; the active backend is the candidate of the
\* last attempt when that succeeded and none otherwise, which is the first
\* candidate in that order whose construction succeeds.
C13_FallbackOrder ==
    /\ \A i \in DOMAIN attempts, k \in DOMAIN attempts :
          i < k => (Rank(attempts[i].backend) < Rank(attempts[k].backend)
                    /\ ~attempts[i].ok)
    /\ ctor \in {"returned", "raised", "finished"} =>
          /\ attempts # <<>>
          /\ LET a == attempts[Len(attempts)] IN
             /\ a.ok => (backend_type = a.backend /\ ctor # "raised")
             /\ ~a.ok => (a.backend = "pytorch" /\ ctor # "returned")
             /\ ctor = "finished" =>
                   /\ separator = (IF a.ok THEN a.backend ELSE None)
                   /\ separator = SelectBackend(env)

C13_Witness ==
    /\ ctor = "finished" /\ separator = "pytorch"
    /\ attempts = <<Attempt("remote-cuda", FALSE, "ImportError"),
                    Attempt("onnx", FALSE, "FileNotFoundError"),
                    Attempt("pytorch", TRUE, "none")>>

\* C16: when the constructor has returned, backend_type names the adapter
\* class held and is not "unknown", and start-up exposes that value; when the
\* constructor raised, start-up leaves the separator None.
AdapterOf(b) ==
    CASE b = "remote-cuda" -> "RemoteCUDAVocalSeparator"
      [] b = "onnx" -> "ONNXVocalSeparator"
      [] b = "pytorch" -> "VocalModelSeparator"
      [] OTHER -> None

C16_BackendTypeNamesAdapter ==
    /\ ctor = "returned" =>
          (backend_type \in Backends /\ held = AdapterOf(backend_type))
    /\ ctor = "finished" =>
          IF attempts[Len(attempts)].ok
          THEN separator = backend_type /\ held = AdapterOf(separator)
          ELSE separator = None /\ held = None

C16_Witness ==
    /\ ctor = "finished" /\ separator = "onnx" /\ held = "ONNXVocalSeparator"
    /\ Len(attempts) = 2

NoOnnxArtifact(e) ==
    ~e.has_optimized /\ ~e.has_plain /\ ~(e.quantized /\ e.has_int8)

C19_ReconstructionIdentity ==
    /\ cpc # "raised"
    /\ cpc = "done" => estimated_vocals = audio_tensor

\* C20: for a waveform longer than one chunk, when the chunk loop has ended
\* the counter is strictly positive at every position of the buffer.
C20_CounterPositive ==
    (cpc = "loop" /\ ci >= SeqLen(mix) /\ SeqLen(audio_tensor) > chunk_size) =>
        \A ch \in Channels : \A p \in 1..SeqLen(mix) : counter[ch][p] > 0

\* C21: the buffer is reflect-padded by border at both ends exactly when the
\* input is longer than 2*border and border > 0; the condition each variant
\* uses to strip (the recorded flag, or the test repeated on the buffer)
\* agrees with whether the padding was applied; a returned tensor is the
\* buffer minus border at both ends exactly when the buffer was padded, and
\* it has the input's sample count and channel count.
C21_BorderSymmetry ==
    LET b == Border(chunk_size, num_overlap) IN
    /\ cpc \in {"loop", "raised", "infer_raised", "done"} =>
          /\ padded = (SeqLen(audio_tensor) > 2 * b /\ b > 0)
          /\ IsPadded(mix, chunk_size, num_overlap) = padded
          /\ SeqLen(mix) = SeqLen(audio_tensor) + (IF padded THEN 2 * b ELSE 0)
          /\ ~padded => mix = audio_tensor
    /\ cpc = "done" =>
          /\ DOMAIN estimated_vocals = Channels
          /\ \A ch \in Channels : Len(estimated_vocals[ch]) = Len(audio_tensor[ch])
          /\ padded = (SeqLen(estimated_vocals) = SeqLen(mix) - 2 * b /\ b > 0)

C21_Witness ==
    /\ cpc = "done" /\ padded /\ variant = "onnx"
    /\ SeqLen(mix) > SeqLen(estimated_vocals)
    /\ SeqLen(estimated_vocals) = SeqLen(audio_tensor)

\* C22 (as stated): when the chunker returns, the estimator has been called
\* once for each offset 0, step, 2*step, ... below the length of the input
\* waveform.
Ceil(a, b) == (a + b - 1) \div b

C22_OncePerWaveformOffset ==
    LET step == chunk_size \div num_overlap IN
    cpc = "done" =>
        /\ Len(calls) = Ceil(SeqLen(audio_tensor), step)
        /\ \A k \in DOMAIN calls : calls[k] = (k - 1) * step

\* C22 (amended): the estimator is called at the offsets 0, step, 2*step, ...
\* of the buffer in increasing order and never twice; when the chunker
\* returns it has been called once for every such offset below the length of
\* the buffer, which is the input length plus 2*border when the input was
\* border-padded, and the output has the input's sample count and two
\* channels; the ONNX variant stops early only when the estimator raises; the
\* PyTorch variant also stops, before calling the estimator, at the first
\* tail chunk that is not longer than its pad.
C22_OncePerBufferOffset ==
    LET step == chunk_size \div num_overlap
        total == SeqLen(mix)
    IN
    cpc \in {"loop", "raised", "infer_raised", "done"} =>
        /\ total = SeqLen(audio_tensor) + (IF padded THEN 2 * (chunk_size - step) ELSE 0)
        /\ \A k \in DOMAIN calls : calls[k] = (k - 1) * step /\ calls[k] < total
        /\ cpc = "done" =>
              /\ Len(calls) = Ceil(total, step)
              /\ DOMAIN estimated_vocals = Channels
              /\ SeqLen(estimated_vocals) = SeqLen(audio_tensor)
        /\ cpc = "infer_raised" => Len(calls) = fail_at + 1
        /\ cpc = "raised" =>
              /\ variant = "pytorch"
              /\ Len(calls) * step < total
              /\ 2 * (total - Len(calls) * step) <= chunk_size
        /\ (variant = "onnx" /\ fail_at = -1) => cpc # "infer_raised"

C22_Witness ==
    /\ cpc = "done" /\ variant = "onnx" /\ padded /\ num_overlap = 4
    /\ Len(calls) > Ceil(SeqLen(audio_tensor), chunk_size \div num_overlap)
    /\ SeqLen(estimated_vocals) = SeqLen(audio_tensor)

\* C23 (as stated): the instrumental has the shape of the normalized
\* original, equals original minus vocals elementwise, and vocals plus
\* instrumental equals the original at every element.
SameShape(a, b) ==
    DOMAIN a = DOMAIN b /\ \A ch \in DOMAIN a : DOMAIN a[ch] = DOMAIN b[ch]

C24_StereoAtModelRate ==
    wpc \in {"separate", "subtract", "done"} =>
        /\ Len(original_tensor) = 2
        /\ rate = TargetSr
        /\ Len(wav) = 1 => original_tensor[1] = original_tensor[2]

\* C25: once the estimator has raised on a chunk, the calls made are exactly
\* those at offsets 0, step, ..., up to the failing one (no retry, no skip,
\* no later chunk), the chunker has returned nothing, no stem file and no ZIP
\* exists, and when the handler has ended the job is failed with an error
\* message and the response is 500.
InferFailed == fail_at >= 0 /\ Len(calls) = fail_at + 1

C25_ChunkFailureFailsJob ==
    InferFailed =>
        /\ cpc \in {"infer_raised", "propagated"}
        /\ \A k \in DOMAIN calls : calls[k] = (k - 1) * (chunk_size \div num_overlap)
        /\ estimated_vocals = Zeros(0)
        /\ files[1]["vocals"] = "none" /\ files[1]["instrumental"] = "none"
        /\ files[1]["zip"] = "none"
        /\ status[1] \in {"running", "failed"}
        /\ cpc = "propagated" => pc[1] \in {"sv_except", "done"}
        /\ pc[1] = "done" =>
              /\ status[1] = "failed" /\ error_message[1] # None
              /\ last = Resp("separate_vocals", 1, 500)

C25_Witness ==
    /\ InferFailed /\ fail_at >= 1 /\ variant = "onnx"
    /\ pc[1] = "done" /\ status[1] = "failed"
    /\ SeqLen(mix) > calls[Len(calls)] + chunk_size

\* C26: the remote client's separate returns stem paths only if every
\* answer of the peer was a success; a connection failure or a non-success
\* answer to the POST or to either download makes it raise.
C26_RemoteFailureRaises ==
    /\ routcome = "returned" =>
          \A k \in DOMAIN answers : answers[k].kind = "ok"
    /\ (rpc = "done" /\ \E k \in DOMAIN answers : answers[k].kind # "ok") =>
          routcome = "raised"

\* C27: a /get-audio-url request during which yt-dlp raised ends with
\* status 500 and a detail containing "Failed to process YouTube URL".
C27_YtDlpFailureDetail ==
    \A r \in Reqs :
        (pc[r] = "done" /\ "yt_dlp_raised" \in effects[r]) =>
            DetailFailedToProcess \in effects[r]

\* C28: the step that takes a /get-audio-url request with an empty url
\* answers 422, ends the request, and leaves the job registry, every job
\* record and the cache unchanged; such a request never extracts metadata,
\* downloads or owns a job.
C28_EmptyUrlRejected ==
    [][\A r \in Reqs :
        /\ ("url_empty" \in effects'[r] /\ "url_empty" \notin effects[r]) =>
              /\ last' = Resp("get_audio_url", 0, 422)
              /\ pc'[r] = "done"
              /\ UNCHANGED <<jobVars, cache, job, files, loop>>
        /\ "url_empty" \in effects[r] =>
              /\ pc'[r] = "done" /\ job'[r] = 0
              /\ effects'[r] = {"url_empty"}]_vars

C28_Witness ==
    /\ last = Resp("get_audio_url", 0, 422)
    /\ \E r \in Reqs : effects[r] = {"url_empty"} /\ pc[r] = "done"
    /\ active_jobs # {} /\ cache

\* C29: every tail pad is a reflect pad exactly when the available length
\* is greater than the pad amount, and a constant (zero) pad otherwise.
C29_ReflectOnlyWhenLongEnough ==
    \A k \in DOMAIN pads :
        /\ pads[k].pad_amount = chunk_size - pads[k].length
        /\ (pads[k].mode = "reflect") = (pads[k].length > pads[k].pad_amount)
        /\ (pads[k].mode = "constant") = ~(pads[k].length > pads[k].pad_amount)

\* C30: a completed job has progress 100 and its cancellation flag is not
\* set, and a job whose cancellation flag is set has status cancelled.
C30_StatusMatchesFlag ==
    \A j \in JobIds :
        /\ status[j] = "completed" => (progress[j] = ProgressDone /\ ~cancel_event[j])
        /\ cancel_event[j] => status[j] = "cancelled"

====
